---- MODULE Spec2Model ----
\* The spanning-tree server node (TreeServer) of m_spanningtree: the tree of
\* linked servers, its name/SID index, the burst flag, the keepalive fields,
\* QuitUsers and Tidy, modelled from src/src/modules/m_spanningtree/treeserver.cpp.
EXTENDS Integers, Sequences, FiniteSets, TLC

\* ------------------------------------------------------------------ bounds

\* Number of heap slots for non-root TreeServer objects; also the size of the
\* pools of server names and SIDs a peer may announce.
MaxNodes == 3

\* Number of users the registry can hold.
MaxUsers == 2

\* Number of direct accessor calls (AddChild, DelChild, SetNextPingTime,
\* SetPingFlag) made from outside the link, burst and split handlers in one run.
MaxCalls == 1

\* Number of non-root servers in the small tree on which every operation of
\* the node is interleaved with every other.
MaxSmall == 2

\* Number of times the clock's seconds move on.
MaxTicks == 1

\* Utils->PingFreq, the configured keepalive interval in seconds.
PingFreq == 60

\* ------------------------------------------------------------- identities

\* A null pointer.
NULL == -1
\* A pointer to a node that `delete` has destroyed: it equals no live address
\* and may not be dereferenced.
Freed == -2
\* Utils->TreeRoot, the node built by the root constructor.
TreeRoot == 0
\* ServerInstance->Config->ServerName and Config->GetSID(): the root's identity.
RootName == TreeRoot
RootSid == TreeRoot
\* ServerInstance->GetVersionString(), the root's version string.
LocalVersion == "InspIRCd-local"
\* The version strings a peer advertises for a server.
Versions == {"InspIRCd-2.0"}

Addr == 1..MaxNodes
Node == {TreeRoot} \cup Addr
Names == 0..MaxNodes
Sids == 0..MaxNodes
Users == 1..MaxUsers
Reasons == {"Server quit", "Ping timeout"}

VARIABLES
    live,             \* the addresses that hold a constructed, not yet deleted node
    Parent,           \* TreeServer::Parent
    Route,            \* TreeServer::Route
    ServerName,       \* TreeServer::ServerName
    VersionString,    \* TreeServer::VersionString
    sid,              \* TreeServer::sid
    bursting,         \* TreeServer::bursting
    StartBurst,       \* TreeServer::StartBurst, in ms
    NextPing,         \* TreeServer::NextPing
    LastPingWasGood,  \* TreeServer::LastPingWasGood
    Children,         \* TreeServer::Children, a vector
    serverlist,       \* Utils->serverlist, name -> node
    sidlist,          \* Utils->sidlist, SID -> node
    clientlist,       \* ServerInstance->Users->clientlist, the user registry
    quiet_bursts,     \* Utils->quiet_bursts
    HideSplits,       \* ServerInstance->Config->HideSplits
    now,              \* ServerInstance->Time(), in seconds
    millis,           \* ServerInstance->Time_ns() / 1000000
    calls,            \* direct accessor calls made so far
    lastOp            \* the operation that produced this state, with what it emitted

vars == <<live, Parent, Route, ServerName, VersionString, sid, bursting, StartBurst, NextPing,
          LastPingWasGood, Children, serverlist, sidlist, clientlist,
          quiet_bursts, HideSplits, now, millis, calls, lastOp>>

\* What an operation reports: the call, its target, an argument, its return
\* value and what it emitted (nodes deleted, ban-rule applications, notices,
\* events, quits).
Op(o, n) ==
    [op |-> o, node |-> n, arg |-> NULL, ret |-> 0,
     destroyed |-> <<>>, applied |-> 0, notices |-> <<>>, events |-> <<>>,
     quits |-> {}]

\* ------------------------------------------------------------ sequences

Range(s) == {s[i] : i \in 1..Len(s)}

Count(s, x) == Cardinality({i \in 1..Len(s) : s[i] = x})

\* --------------------------------------------------------------- clock

\* ServerInstance->Time() * 1000 + ServerInstance->Time_ns() / 1000000.
TimeMs == now * 1000 + millis

\* The seconds the clock moves on by between two events that read it.
TickSecs == 10

\* The millisecond parts of the times at which events read the clock.
Millis == {0, 500}

\* The clock moves forward: it reads s seconds and m milliseconds from now on.
ClockReads(s, m) ==
    /\ s * 1000 + m > TimeMs
    /\ now' = s
    /\ millis' = m
    /\ lastOp' = Op("Tick", TreeRoot)
    /\ UNCHANGED <<live, Parent, Route, ServerName, VersionString, sid, bursting,
                   StartBurst, NextPing, LastPingWasGood, Children, serverlist,
                   sidlist, clientlist, quiet_bursts, HideSplits, calls>>

\* Time passes between two events, MaxTicks times TickSecs seconds at most.
Tick(s, m) ==
    /\ s <= MaxTicks * TickSecs
    /\ ClockReads(s, m)

\* Time passes up to the end of a ping interval, MaxTicks intervals at most.
TickInterval(s, m) ==
    /\ s <= MaxTicks * PingFreq
    /\ ClockReads(s, m)

\* ----------------------------------------------------------- keepalive

\* TreeServer::SetNextPingTime on node n of h = [bursting, NextPing, LastPingWasGood].
SetNextPingTime(h, n, t) ==
    [h EXCEPT !.NextPing[n] = t, !.LastPingWasGood[n] = FALSE]

\* SetPingFlag also pushing the due time one interval on.
SetPingFlagReschedules(h, n) ==
    [h EXCEPT !.LastPingWasGood[n] = TRUE, !.NextPing[n] = @ + PingFreq]

\* SetPingFlag doing nothing.
SetPingFlagNoop(h, n) == h

\* TreeServer::SetPingFlag.
SetPingFlag(h, n) == [h EXCEPT !.LastPingWasGood[n] = TRUE]

\* ------------------------------------------------- defined behaviour

\* The nodes a recursion over the child vectors `kids` calls into, in call
\* order; Freed marks a recursion deeper than any tree of MaxNodes nodes (a
\* cycle of child vectors, which never returns).
RECURSIVE Reached(_, _)
Reached(kids, fuel) ==
    IF kids = <<>> THEN <<>>
    ELSE IF fuel = 0 THEN <<Freed>>
    ELSE LET c == Head(kids) IN
         <<c>> \o (IF c \in live THEN Reached(Children[c], fuel - 1) ELSE <<>>)
               \o Reached(Tail(kids), fuel)

\* FinishBurstInternal below n only calls into nodes that exist, and returns.
BurstDefined(n) == Range(Reached(Children[n], MaxNodes)) \subseteq live

\* Tidy below n only calls into and deletes nodes that exist, each once.
TidyDefined(n) ==
    LET r == Reached(Children[n], MaxNodes) IN
    /\ Range(r) \subseteq live \ {n}
    /\ \A i, j \in 1..Len(r) : r[i] = r[j] => i = j

\* The constructor's route walk from Above only reads nodes that exist.
RECURSIVE WalkDefined(_)
WalkDefined(r) == r = TreeRoot \/ (r \in live /\ WalkDefined(Parent[r]))

\* --------------------------------------------------------- construction

\* TreeServer::AddHashEntry: an unconditional upsert, in either map.
AddHashEntry(sl, key, this) == [sl EXCEPT ![key] = this]

\* The route walk of the child constructor, started at r = Above # TreeRoot.
RECURSIVE RouteWalk(_)
RouteWalk(r) == IF Parent[r] = TreeRoot THEN r ELSE RouteWalk(Parent[r])

\* ComputeRoute without the walk up to the root's child.
ComputeRouteNoWalk(this, Above) ==
    IF Above = TreeRoot THEN this ELSE Above

\* The Route the child constructor stores for a new node `this` under Above.
ComputeRoute(this, Above) ==
    IF Above = TreeRoot THEN this ELSE RouteWalk(Above)

\* TreeServer::AddChild: push_back.
AddChild(kids, Child) == Append(kids, Child)

\* TreeServer::DelChild: erase the first occurrence, if there is one.
DelChild(kids, Child) ==
    IF \E i \in 1..Len(kids) : kids[i] = Child
    THEN LET it == CHOOSE i \in 1..Len(kids) :
                       kids[i] = Child /\ \A j \in 1..(i - 1) : kids[j] # Child
         IN SubSeq(kids, 1, it - 1) \o SubSeq(kids, it + 1, Len(kids))
    ELSE kids

\* The address `new` returns: a slot that holds no live node.
NewAddr == CHOOSE a \in Addr \ live : \A b \in Addr \ live : a <= b

\* The child constructor also routing its parent through the new node.
ConstructReroutesAbove(this, name, id, Above) ==
    /\ live' = live \cup {this}
    /\ Parent' = [Parent EXCEPT ![this] = Above]
    /\ ServerName' = [ServerName EXCEPT ![this] = name]
    /\ VersionString' = [VersionString EXCEPT ![this] = ""]
    /\ sid' = [sid EXCEPT ![this] = id]
    /\ bursting' = [bursting EXCEPT ![this] = TRUE]
    /\ NextPing' = [NextPing EXCEPT ![this] = now + PingFreq]
    /\ LastPingWasGood' = [LastPingWasGood EXCEPT ![this] = TRUE]
    /\ StartBurst' = [StartBurst EXCEPT ![this] = TimeMs]
    /\ Route' = [x \in Node |-> IF x = this THEN ComputeRoute(this, Above)
                                ELSE IF x = Above /\ x # TreeRoot THEN this
                                ELSE Route[x]]
    /\ serverlist' = AddHashEntry(serverlist, name, this)
    /\ sidlist' = AddHashEntry(sidlist, id, this)

\* The child constructor TreeServer(Name, Desc, id, Above, Sock, Hide) at `this`.
Construct(this, name, id, Above) ==
    LET p == SetPingFlag(
                 SetNextPingTime(
                     [bursting |-> [bursting EXCEPT ![this] = TRUE],
                      NextPing |-> NextPing,
                      LastPingWasGood |-> LastPingWasGood],
                     this, now + PingFreq),
                 this)
    IN /\ live' = live \cup {this}
       /\ Parent' = [Parent EXCEPT ![this] = Above]
       /\ ServerName' = [ServerName EXCEPT ![this] = name]
       /\ VersionString' = [VersionString EXCEPT ![this] = ""]
       /\ sid' = [sid EXCEPT ![this] = id]
       /\ bursting' = p.bursting
       /\ NextPing' = p.NextPing
       /\ LastPingWasGood' = p.LastPingWasGood
       /\ StartBurst' = [StartBurst EXCEPT ![this] = TimeMs]
       /\ Route' = [Route EXCEPT ![this] = ComputeRoute(this, Above)]
       /\ serverlist' = AddHashEntry(serverlist, name, this)
       /\ sidlist' = AddHashEntry(sidlist, id, this)

\* The duplicate check looking at the name only.
IsKnownByName(name, id) == serverlist[name] # NULL

\* The protocol layer's duplicate check in front of the constructor.
IsKnown(name, id) == serverlist[name] # NULL \/ sidlist[id] # NULL

\* The node the duplicate check found: by name first, else by SID.
FoundDupe(name, id) ==
    IF serverlist[name] # NULL THEN serverlist[name] ELSE sidlist[id]

\* A peer introduces a server whose name or SID the index already holds: the
\* link is refused and no node is constructed.
RejectLink(name, id) ==
    /\ IsKnown(name, id)
    /\ lastOp' = Op("LinkRejected", FoundDupe(name, id))
    /\ UNCHANGED <<live, Parent, Route, ServerName, VersionString, sid, bursting, StartBurst,
                   NextPing, LastPingWasGood, Children, serverlist, sidlist,
                   clientlist, quiet_bursts, HideSplits, now, millis, calls>>

\* A peer introduces server (name, id) below Above: past the duplicate check,
\* the child constructor, then Above->AddChild(node).
LinkServer(name, id, Above) ==
    /\ ~IsKnown(name, id)
    /\ Addr \ live # {}
    /\ WalkDefined(Above)
    /\ Construct(NewAddr, name, id, Above)
    /\ Children' = [Children EXCEPT ![Above] = AddChild(@, NewAddr)]
    /\ lastOp' = Op("LinkServer", NewAddr)
    /\ UNCHANGED <<clientlist, quiet_bursts, HideSplits, now, millis, calls>>

\* ----------------------------------------------------------------- burst

\* TreeServer::FinishBurstInternal on node n of h = [bursting, NextPing,
\* LastPingWasGood]: the node itself, then every child in vector order.
RECURSIVE FinishBurstInternal(_, _)
RECURSIVE FinishBurstChildren(_, _)
FinishBurstChildren(h, kids) ==
    IF kids = <<>> THEN h
    ELSE FinishBurstChildren(FinishBurstInternal(h, Head(kids)), Tail(kids))

\* FinishBurstInternal without the loop over the children.
FinishBurstInternalNoLoop(h, n) ==
    SetPingFlag(
        SetNextPingTime([h EXCEPT !.bursting[n] = FALSE], n, now + PingFreq), n)

\* FinishBurstInternal flipping the flag instead of clearing it.
RECURSIVE FinishBurstInternalFlip(_, _)
RECURSIVE FinishBurstChildrenFlip(_, _)
FinishBurstChildrenFlip(h, kids) ==
    IF kids = <<>> THEN h
    ELSE FinishBurstChildrenFlip(FinishBurstInternalFlip(h, Head(kids)), Tail(kids))

FinishBurstInternalFlip(h, n) ==
    FinishBurstChildrenFlip(
        SetPingFlag(
            SetNextPingTime([h EXCEPT !.bursting[n] = ~@], n, now + PingFreq),
            n),
        Children[n])

FinishBurstInternal(h, n) ==
    FinishBurstChildren(
        SetPingFlag(
            SetNextPingTime([h EXCEPT !.bursting[n] = FALSE], n, now + PingFreq),
            n),
        Children[n])

\* The notice switching to seconds at 10000 ms already.
BurstNoticeFromTen(n) ==
    LET bursttime == TimeMs - StartBurst[n] IN
    [class |-> IF Parent[n] = TreeRoot THEN "l" ELSE "L",
     server |-> ServerName[n],
     amount |-> IF bursttime >= 10000 THEN bursttime \div 1000 ELSE bursttime,
     unit |-> IF bursttime >= 10000 THEN "secs" ELSE "msecs"]

\* The operator notice of FinishBurst: class, server, and the duration as printed.
BurstNotice(n) ==
    LET bursttime == TimeMs - StartBurst[n] IN
    [class |-> IF Parent[n] = TreeRoot THEN "l" ELSE "L",
     server |-> ServerName[n],
     amount |-> IF bursttime > 10000 THEN bursttime \div 1000 ELSE bursttime,
     unit |-> IF bursttime > 10000 THEN "secs" ELSE "msecs"]

\* TreeServer::FinishBurst on node n.
FinishBurst(n) ==
    /\ BurstDefined(n)
    /\ LET h == FinishBurstInternal(
                    [bursting |-> bursting, NextPing |-> NextPing,
                     LastPingWasGood |-> LastPingWasGood], n)
       IN /\ bursting' = h.bursting
          /\ NextPing' = h.NextPing
          /\ LastPingWasGood' = h.LastPingWasGood
          /\ lastOp' = [Op("FinishBurst", n) EXCEPT
                           !.arg = IF bursting[n] THEN 1 ELSE 0,
                           !.applied = 1,
                           !.notices = <<BurstNotice(n)>>,
                           !.events = <<ServerName[n]>>]
          /\ UNCHANGED <<live, Parent, Route, ServerName, VersionString, sid, StartBurst, Children,
                         serverlist, sidlist, clientlist, quiet_bursts, HideSplits,
                         now, millis, calls>>

\* -------------------------------------------------------------- teardown

\* The destructor without sidlist.erase(sid).
DestroyKeepsSid(h, s) ==
    [h EXCEPT !.live = @ \ {s},
              !.serverlist[ServerName[s]] = NULL,
              !.destroyed = Append(@, [node |-> s, kids |-> Len(h.Children[s])])]

\* TreeServer::~TreeServer on node s of h = [live, Children, serverlist, sidlist,
\* destroyed]: both index keys are erased; `destroyed` logs the deletion with
\* the size of the child vector the node still held.
Destroy(h, s) ==
    [h EXCEPT !.live = @ \ {s},
              !.sidlist[sid[s]] = NULL,
              !.serverlist[ServerName[s]] = NULL,
              !.destroyed = Append(@, [node |-> s, kids |-> Len(h.Children[s])])]

\* Tidy without the recursive s->Tidy().
RECURSIVE TidyNoRecursion(_, _)
TidyNoRecursion(h, n) ==
    IF h.Children[n] = <<>> THEN h
    ELSE LET s == Head(h.Children[n])
             h2 == [h EXCEPT !.Children[n] = Tail(@)]
         IN TidyNoRecursion(Destroy(h2, s), n)

\* Tidy deleting the child before it tidies below it.
RECURSIVE TidyDeleteFirst(_, _)
TidyDeleteFirst(h, n) ==
    IF h.Children[n] = <<>> THEN h
    ELSE LET s == Head(h.Children[n])
             h1 == Destroy([h EXCEPT !.Children[n] = Tail(@)], s)
         IN TidyDeleteFirst(TidyDeleteFirst(h1, s), n)

\* Tidy deleting the node itself once its child vector is empty.
TidyDestroysSelf(h, n) ==
    IF h.Children[n] = <<>> THEN Destroy(h, n) ELSE TidyNoRecursion(h, n)

\* TreeServer::Tidy on node n: while a first child s exists, s->Tidy(),
\* s->cull(), Children.erase(begin), delete s.
RECURSIVE Tidy(_, _)
Tidy(h, n) ==
    IF h.Children[n] = <<>> THEN h
    ELSE LET s == Head(h.Children[n])
             h1 == Tidy(h, s)
             h2 == [h1 EXCEPT !.Children[n] = Tail(@)]
         IN Tidy(Destroy(h2, s), n)

\* What n->Tidy() makes of the nodes, the child vectors and the two maps,
\* with the log of the deletions.
TidyHeap(n) ==
    Tidy([live |-> live, Children |-> Children, serverlist |-> serverlist,
          sidlist |-> sidlist, destroyed |-> <<>>], n)

\* n->Tidy() as the tree sees it. The memory of the deleted nodes is released,
\* and a pointer to one of them that survives anywhere is from then on a
\* pointer to freed memory.
TidyTree(n) ==
    /\ TidyDefined(n)
    /\ LET h == TidyHeap(n)
           gone == live \ h.live
           Stale(ptr) == IF ptr \in gone THEN Freed ELSE ptr
           Free(f, v) == [x \in Node |-> IF x \in gone THEN v ELSE f[x]]
       IN /\ live' = h.live
          /\ Children' = [x \in Node |->
                             [i \in 1..Len(h.Children[x]) |-> Stale(h.Children[x][i])]]
          /\ serverlist' = h.serverlist
          /\ sidlist' = h.sidlist
          /\ Parent' = [x \in Node |-> IF x \in gone THEN NULL ELSE Stale(Parent[x])]
          /\ Route' = [x \in Node |-> IF x \in gone THEN NULL ELSE Stale(Route[x])]
          /\ ServerName' = Free(ServerName, NULL)
          /\ VersionString' = Free(VersionString, "")
          /\ sid' = Free(sid, NULL)
          /\ bursting' = Free(bursting, FALSE)
          /\ StartBurst' = Free(StartBurst, 0)
          /\ NextPing' = Free(NextPing, 0)
          /\ LastPingWasGood' = Free(LastPingWasGood, FALSE)

\* A Tidy call on node n. When the call before it was a Tidy on the same
\* node, the report carries in `arg` how many nodes that call deleted.
TidyNode(n) ==
    /\ TidyTree(n)
    /\ lastOp' = [Op("Tidy", n) EXCEPT
                     !.destroyed = TidyHeap(n).destroyed,
                     !.arg = IF lastOp.op = "Tidy" /\ lastOp.node = n
                             THEN Len(lastOp.destroyed) ELSE NULL]
    /\ UNCHANGED <<clientlist, quiet_bursts, HideSplits, now, millis, calls>>

\* ------------------------------------------------------- accessor calls

\* A direct AddChild(c) call on node p.
CallAddChild(p, c) ==
    /\ calls < MaxCalls
    /\ calls' = calls + 1
    /\ Children' = [Children EXCEPT ![p] = AddChild(@, c)]
    /\ lastOp' = Op("AddChild", p)
    /\ UNCHANGED <<live, Parent, Route, ServerName, VersionString, sid, bursting, StartBurst,
                   NextPing, LastPingWasGood, serverlist, sidlist, clientlist,
                   quiet_bursts, HideSplits, now, millis>>

\* A direct DelChild(c) call on node p; it returns whether c was found.
CallDelChild(p, c) ==
    /\ calls < MaxCalls
    /\ calls' = calls + 1
    /\ Children' = [Children EXCEPT ![p] = DelChild(@, c)]
    /\ lastOp' = [Op("DelChild", p) EXCEPT
                     !.ret = IF c \in Range(Children[p]) THEN 1 ELSE 0]
    /\ UNCHANGED <<live, Parent, Route, ServerName, VersionString, sid, bursting, StartBurst,
                   NextPing, LastPingWasGood, serverlist, sidlist, clientlist,
                   quiet_bursts, HideSplits, now, millis>>

\* A direct SetNextPingTime(t) call on node n.
CallSetNextPingTime(n, t) ==
    LET h == SetNextPingTime([bursting |-> bursting, NextPing |-> NextPing,
                              LastPingWasGood |-> LastPingWasGood], n, t)
    IN /\ calls < MaxCalls
       /\ calls' = calls + 1
       /\ bursting' = h.bursting
       /\ NextPing' = h.NextPing
       /\ LastPingWasGood' = h.LastPingWasGood
       /\ lastOp' = Op("SetNextPingTime", n)
       /\ UNCHANGED <<live, Parent, Route, ServerName, VersionString, sid, StartBurst, Children,
                      serverlist, sidlist, clientlist, quiet_bursts, HideSplits,
                      now, millis>>

\* A direct SetPingFlag() call on node n.
CallSetPingFlag(n) ==
    LET h == SetPingFlag([bursting |-> bursting, NextPing |-> NextPing,
                          LastPingWasGood |-> LastPingWasGood], n)
    IN /\ calls < MaxCalls
       /\ calls' = calls + 1
       /\ bursting' = h.bursting
       /\ NextPing' = h.NextPing
       /\ LastPingWasGood' = h.LastPingWasGood
       /\ lastOp' = Op("SetPingFlag", n)
       /\ UNCHANGED <<live, Parent, Route, ServerName, VersionString, sid, StartBurst, Children,
                      serverlist, sidlist, clientlist, quiet_bursts, HideSplits,
                      now, millis>>

\* TreeServer::SetVersion(Version) on node n, called directly.
CallSetVersion(n, Version) ==
    /\ calls < MaxCalls
    /\ calls' = calls + 1
    /\ VersionString' = [VersionString EXCEPT ![n] = Version]
    /\ lastOp' = Op("SetVersion", n)
    /\ UNCHANGED <<live, Parent, Route, ServerName, sid, bursting, StartBurst,
                   NextPing, LastPingWasGood, Children, serverlist, sidlist,
                   clientlist, quiet_bursts, HideSplits, now, millis>>

\* ------------------------------------------------------ keepalive calls

\* TreeServer::NextPingTime: a pure read.
NextPingTime(n) == NextPing[n]

\* TreeServer::AnsweredLastPing: a pure read.
AnsweredLastPing(n) == LastPingWasGood[n]

\* The timer loop schedules node n's next ping for time t.
KeepaliveSetNextPingTime(n, t) ==
    LET h == SetNextPingTime([bursting |-> bursting, NextPing |-> NextPing,
                              LastPingWasGood |-> LastPingWasGood], n, t)
    IN /\ bursting' = h.bursting
       /\ NextPing' = h.NextPing
       /\ LastPingWasGood' = h.LastPingWasGood
       /\ lastOp' = [Op("SetNextPingTime", n) EXCEPT !.arg = t]
       /\ UNCHANGED <<live, Parent, Route, ServerName, VersionString, sid, StartBurst, Children,
                      serverlist, sidlist, clientlist, quiet_bursts, HideSplits,
                      now, millis, calls>>

\* A pong from node n arrives.
KeepaliveSetPingFlag(n) ==
    LET h == SetPingFlag([bursting |-> bursting, NextPing |-> NextPing,
                          LastPingWasGood |-> LastPingWasGood], n)
    IN /\ bursting' = h.bursting
       /\ NextPing' = h.NextPing
       /\ LastPingWasGood' = h.LastPingWasGood
       /\ lastOp' = Op("SetPingFlag", n)
       /\ UNCHANGED <<live, Parent, Route, ServerName, VersionString, sid, StartBurst, Children,
                      serverlist, sidlist, clientlist, quiet_bursts, HideSplits,
                      now, millis, calls>>

\* The timer loop reads NextPingTime() of node n.
KeepaliveNextPingTime(n) ==
    /\ lastOp' = [Op("NextPingTime", n) EXCEPT !.ret = NextPingTime(n)]
    /\ UNCHANGED <<live, Parent, Route, ServerName, VersionString, sid, bursting, StartBurst,
                   NextPing, LastPingWasGood, Children, serverlist, sidlist,
                   clientlist, quiet_bursts, HideSplits, now, millis, calls>>

\* The timer loop reads AnsweredLastPing() of node n.
KeepaliveAnsweredLastPing(n) ==
    /\ lastOp' = [Op("AnsweredLastPing", n) EXCEPT
                     !.ret = IF AnsweredLastPing(n) THEN 1 ELSE 0]
    /\ UNCHANGED <<live, Parent, Route, ServerName, VersionString, sid, bursting, StartBurst,
                   NextPing, LastPingWasGood, Children, serverlist, sidlist,
                   clientlist, quiet_bursts, HideSplits, now, millis, calls>>

\* ------------------------------------------------------------- QuitUsers

\* The first loop of QuitUsers: the users whose server is this node's name.
TimeToDie(n) == {u \in clientlist : u.server = ServerName[n]}

\* The second loop without the IS_LOCAL test.
QuittingLocalToo(n) == TimeToDie(n)

\* The second loop calling QuitUser on every remote user of the registry.
QuittingEveryRemote(n) == {u \in clientlist : ~u.local}

\* The second loop: the users of time_to_die that QuitUser is called on.
Quitting(n) == {u \in TimeToDie(n) : ~u.local}

\* The value QuitUsers returns.
QuitUsersResult(n) == Cardinality(TimeToDie(n))

\* The quit shown to everybody being the reason passed, split hiding or not.
QuitUserShowsReason(u, reason) ==
    [uid |-> u.uid,
     quietquit |-> IF quiet_bursts THEN TRUE ELSE u.quietquit,
     quitreason |-> reason,
     operreason |-> IF HideSplits THEN reason ELSE ""]

\* One pass of the second loop's body on user u: quietquit is set when
\* quiet_bursts is, then QuitUser is called with the quit message everybody
\* sees and, under HideSplits only, a second one for operators ("" stands for
\* no second message passed).
QuitUser(u, reason) ==
    [uid |-> u.uid,
     quietquit |-> IF quiet_bursts THEN TRUE ELSE u.quietquit,
     quitreason |-> IF HideSplits THEN "*.net *.split" ELSE reason,
     operreason |-> IF HideSplits THEN reason ELSE ""]

\* QuitUsers also taking the node's name out of the index.
QuitUsersUnlinks(n, reason) ==
    /\ clientlist' = clientlist \ Quitting(n)
    /\ serverlist' = [serverlist EXCEPT ![ServerName[n]] = NULL]
    /\ lastOp' = [Op("QuitUsers", n) EXCEPT
                     !.arg = reason,
                     !.ret = QuitUsersResult(n),
                     !.quits = {QuitUser(u, reason) : u \in Quitting(n)}]
    /\ UNCHANGED <<live, Parent, Route, ServerName, VersionString, sid, bursting, StartBurst,
                   NextPing, LastPingWasGood, Children, sidlist,
                   quiet_bursts, HideSplits, now, millis, calls>>

\* TreeServer::QuitUsers(reason) on node n.
QuitUsers(n, reason) ==
    /\ clientlist' = clientlist \ Quitting(n)
    /\ lastOp' = [Op("QuitUsers", n) EXCEPT
                     !.arg = reason,
                     !.ret = QuitUsersResult(n),
                     !.quits = {QuitUser(u, reason) : u \in Quitting(n)}]
    /\ UNCHANGED <<live, Parent, Route, ServerName, VersionString, sid, bursting, StartBurst,
                   NextPing, LastPingWasGood, Children, serverlist, sidlist,
                   quiet_bursts, HideSplits, now, millis, calls>>

\* The link to node n is lost: the link-loss handler calls the pair
\* n->QuitUsers(reason) and n->Tidy().
LinkLost(n, reason) ==
    /\ TidyTree(n)
    /\ clientlist' = clientlist \ Quitting(n)
    /\ lastOp' = [Op("LinkLost", n) EXCEPT
                     !.arg = reason,
                     !.ret = QuitUsersResult(n),
                     !.quits = {QuitUser(u, reason) : u \in Quitting(n)},
                     !.destroyed = TidyHeap(n).destroyed]
    /\ UNCHANGED <<quiet_bursts, HideSplits, now, millis, calls>>

\* The identity of the next session: one that no user of the registry has.
NewUser ==
    CHOOSE i \in Users : /\ \A u \in clientlist : u.uid # i
                         /\ \A j \in Users : (\A u \in clientlist : u.uid # j) => i <= j

\* A user session appears in the registry, affiliated with a server name.
UserConnect(uid, server, local) ==
    /\ Cardinality(clientlist) < MaxUsers
    /\ clientlist' = clientlist \cup {[uid |-> uid, server |-> server,
                                       local |-> local, quietquit |-> FALSE]}
    /\ lastOp' = Op("UserConnect", TreeRoot)
    /\ UNCHANGED <<live, Parent, Route, ServerName, VersionString, sid, bursting, StartBurst,
                   NextPing, LastPingWasGood, Children, serverlist, sidlist,
                   quiet_bursts, HideSplits, now, millis, calls>>

\* The configuration is read again: quiet bursts and split hiding are set to
\* q and h.
Rehash(q, h) ==
    /\ quiet_bursts' = q
    /\ HideSplits' = h
    /\ lastOp' = Op("Rehash", TreeRoot)
    /\ UNCHANGED <<live, Parent, Route, ServerName, VersionString, sid, bursting,
                   StartBurst, NextPing, LastPingWasGood, Children, serverlist,
                   sidlist, clientlist, now, millis, calls>>

\* ------------------------------------------------------------------ Init

\* The state after the root constructor TreeServer(). Its initialiser list
\* sets neither NextPing nor LastPingWasGood of the root: both hold whatever
\* the allocation held.
InitTree ==
    /\ live = {}
    /\ Parent = [n \in Node |-> NULL]
    /\ Route = [n \in Node |-> NULL]
    /\ ServerName = [n \in Node |-> IF n = TreeRoot THEN RootName ELSE NULL]
    /\ VersionString = [n \in Node |-> IF n = TreeRoot THEN LocalVersion ELSE ""]
    /\ sid = [n \in Node |-> IF n = TreeRoot THEN RootSid ELSE NULL]
    /\ bursting = [n \in Node |-> FALSE]
    /\ StartBurst = [n \in Node |-> 0]
    /\ \E t \in {0, PingFreq} :
          NextPing = [n \in Node |-> IF n = TreeRoot THEN t ELSE 0]
    /\ \E g \in BOOLEAN :
          LastPingWasGood = [n \in Node |-> IF n = TreeRoot THEN g ELSE FALSE]
    /\ Children = [n \in Node |-> <<>>]
    /\ serverlist = AddHashEntry([k \in Names |-> NULL], RootName, TreeRoot)
    /\ sidlist = AddHashEntry([k \in Sids |-> NULL], RootSid, TreeRoot)
    /\ clientlist = {}
    /\ now = 0
    /\ millis = 0
    /\ calls = 0
    /\ lastOp = Op("Init", TreeRoot)

Init ==
    /\ InitTree
    /\ quiet_bursts = FALSE
    /\ HideSplits = FALSE

\* A link event: a peer announces server `name`, whose SID is `id`, below Above.
Link(S) ==
    \E pair \in S :
        \/ RejectLink(pair[1], pair[2])
        \/ \E Above \in live \cup {TreeRoot} : LinkServer(pair[1], pair[2], Above)

\* The names a peer announces: the name of any server already linked, or one
\* unknown name. Names are only ever compared for equality, so the unknown name
\* is taken to be the one numbered like the address the node will get.
Announced == {ServerName[n] : n \in live \cup {TreeRoot}}
                 \cup (IF Addr \ live = {} THEN {} ELSE {NewAddr})

\* The tree's life: links (each server with the SID numbered like its name),
\* burst ends and teardown.
Next ==
    \/ Link({<<k, k>> : k \in Announced})
    \/ \E n \in live : FinishBurst(n)
    \/ \E n \in live \cup {TreeRoot} : TidyNode(n)

Spec == Init /\ [][Next]_vars

\* The index under every announcement: any SID with any name.
NextIndex ==
    \/ Link(Announced \X Sids)
    \/ \E n \in live \cup {TreeRoot} : TidyNode(n)

SpecIndex == Init /\ [][NextIndex]_vars

\* The user registry beside the tree: sessions appear, servers are split off.
NextUsers ==
    \/ Link({<<k, k>> : k \in Announced})
    \/ \E n \in live \cup {TreeRoot}, local \in BOOLEAN :
          UserConnect(NewUser, ServerName[n], local)
    \/ \E n \in live, reason \in Reasons : QuitUsers(n, reason)
    \/ \E n \in live \cup {TreeRoot} : TidyNode(n)

SpecUsers == Init /\ [][NextUsers]_vars

\* The tree with its accessors called directly, beside the handlers.
NextAPI ==
    \/ Link({<<k, k>> : k \in Announced})
    \/ \E n \in live : FinishBurst(n)
    \/ \E n \in live \cup {TreeRoot} : TidyNode(n)
    \/ \E p \in live \cup {TreeRoot}, c \in live : CallAddChild(p, c)
    \/ \E p \in live \cup {TreeRoot}, c \in live : CallDelChild(p, c)
    \/ \E n \in live : CallSetNextPingTime(n, now + PingFreq)
    \/ \E n \in live : CallSetPingFlag(n)

SpecAPI == Init /\ [][NextAPI]_vars

\* A link event below one of the nodes P, the server's SID numbered like its name.
LinkBelow(P) ==
    \E k \in Announced :
        \/ RejectLink(k, k)
        \/ \E Above \in P : LinkServer(k, k, Above)

\* The due times the timer loop sets: now, or one interval from now.
PingTimes == {now, now + PingFreq}

\* The keepalive scheduler at work on servers linked to the root: the timer
\* loop's sets and reads and the pongs, in any order, on any node.
NextPingSpec ==
    \/ LinkBelow({TreeRoot})
    \/ \E n \in live \cup {TreeRoot}, t \in PingTimes : KeepaliveSetNextPingTime(n, t)
    \/ \E n \in live \cup {TreeRoot} : KeepaliveSetPingFlag(n)
    \/ \E n \in live \cup {TreeRoot} : KeepaliveNextPingTime(n)
    \/ \E n \in live \cup {TreeRoot} : KeepaliveAnsweredLastPing(n)

SpecPing == Init /\ [][NextPingSpec]_vars

\* Every operation of the node beside every other, on a tree of at most
\* MaxSmall servers: links, burst ends, teardown, the accessors called
\* directly, and a remote or local user appearing and being quit.
NextRoute ==
    \/ Cardinality(live) < MaxSmall /\ Link({<<k, k>> : k \in Announced})
    \/ \E n \in live : FinishBurst(n)
    \/ \E n \in live \cup {TreeRoot} : TidyNode(n)
    \/ \E p \in live \cup {TreeRoot}, c \in live : CallAddChild(p, c)
    \/ \E p \in live \cup {TreeRoot}, c \in live : CallDelChild(p, c)
    \/ \E n \in live : CallSetNextPingTime(n, now + PingFreq)
    \/ \E n \in live : CallSetPingFlag(n)
    \/ \E n \in live, v \in Versions : CallSetVersion(n, v)
    \/ \E n \in live, local \in BOOLEAN :
          clientlist = {} /\ UserConnect(NewUser, ServerName[n], local)
    \/ \E n \in live, reason \in Reasons : QuitUsers(n, reason)

SpecRoute == Init /\ [][NextRoute]_vars

\* Bursts in time: links and burst ends on a tree of at most MaxSmall
\* servers while the clock moves on.
NextClock ==
    \/ Cardinality(live) < MaxSmall /\ Link({<<k, k>> : k \in Announced})
    \/ \E n \in live : FinishBurst(n)
    \/ \E s \in {now, now + TickSecs}, m \in Millis : Tick(s, m)

SpecClock == Init /\ [][NextClock]_vars

\* Splits under every configuration: users appear on a tree of at most
\* MaxSmall servers and are quit with their server, while the configuration
\* is read again at any time.
NextSplit ==
    \/ Cardinality(live) < MaxSmall /\ Link({<<k, k>> : k \in Announced})
    \/ \E n \in live \cup {TreeRoot}, local \in BOOLEAN :
          UserConnect(NewUser, ServerName[n], local)
    \/ \E n \in live, reason \in Reasons : QuitUsers(n, reason)
    \/ \E q \in BOOLEAN, h \in BOOLEAN : Rehash(q, h)

SpecSplit == Init /\ [][NextSplit]_vars

\* Link loss: users appear on a tree of at most MaxSmall servers, QuitUsers
\* is called on single servers, and links are lost.
NextLoss ==
    \/ Cardinality(live) < MaxSmall /\ Link({<<k, k>> : k \in Announced})
    \/ \E n \in live, local \in BOOLEAN : UserConnect(NewUser, ServerName[n], local)
    \/ \E n \in live, reason \in Reasons : QuitUsers(n, reason)
    \/ \E n \in live, reason \in Reasons : LinkLost(n, reason)

SpecLoss == Init /\ [][NextLoss]_vars

\* Servers coming due: links and bursts on a tree of at most MaxSmall servers
\* while the clock runs up to the end of a ping interval, and no ping is sent.
NextDue ==
    \/ Cardinality(live) < MaxSmall /\ Link({<<k, k>> : k \in Announced})
    \/ \E n \in live : FinishBurst(n)
    \/ \E s \in {now, now + PingFreq}, m \in Millis : TickInterval(s, m)

SpecDue == Init /\ [][NextDue]_vars

\* ---------------------------------------------------------------- claims

\* The live nodes below B, by their parent pointers.
RECURSIVE Under(_, _)
Under(d, B) == Parent[d] = B \/ (Parent[d] \in live /\ Under(Parent[d], B))

Desc(B) == {d \in live : Under(d, B)}

\* C1: every live non-root node N has route(N) = N when its parent is the root
\* and route(N) = route(parent(N)) otherwise, and route(N) is a live node whose
\* parent is the root.
C1_RouteCorrect ==
    \A n \in live :
        /\ Route[n] = (IF Parent[n] = TreeRoot THEN n ELSE Route[Parent[n]])
        /\ Route[n] \in live
        /\ Parent[Route[n]] = TreeRoot

\* A node three levels below the root, after a burst end, routed through a node
\* that is not its parent.
C1_Witness ==
    \E n \in live :
        /\ Parent[n] \in live
        /\ Parent[Parent[n]] \in live
        /\ Route[n] # Parent[n]
        /\ ~bursting[n]

\* C2: the name index and the SID index hold exactly the live nodes: every
\* live node (the root included) is found under its own name and its own SID,
\* and every entry of either map is a live node.
C2_IndexExact ==
    /\ \A n \in live \cup {TreeRoot} :
          serverlist[ServerName[n]] = n /\ sidlist[sid[n]] = n
    /\ \A k \in Names : serverlist[k] # NULL => serverlist[k] \in live \cup {TreeRoot}
    /\ \A k \in Sids : sidlist[k] # NULL => sidlist[k] \in live \cup {TreeRoot}

\* A Tidy has deleted nodes and a node whose SID is not numbered like its name
\* is still live.
C2_Witness ==
    /\ lastOp.op = "Tidy"
    /\ lastOp.destroyed # <<>>
    /\ \E n \in live : sid[n] # ServerName[n]

C4_TidyRemovesNode ==
    [][(/\ lastOp'.op = "Tidy"
        /\ lastOp'.node # TreeRoot
        /\ Desc(lastOp'.node) # {}) =>
          LET B == lastOp'.node IN
          /\ \A x \in {B} \cup Desc(B) :
                /\ \A k \in Names : serverlist'[k] # x
                /\ \A k \in Sids : sidlist'[k] # x
          /\ Count(Children'[Parent[B]], B) = 0]_vars

\* C4 as amended: after Tidy on a node B, no descendant of B is live or found
\* in the index by name or by SID and B's child set is empty; B itself is still
\* live, still found under its name and SID, and still once in the child set of
\* its parent.
C4_TidyRemovesDescendants ==
    [][lastOp'.op = "Tidy" =>
          LET B == lastOp'.node IN
          /\ live' = live \ Desc(B)
          /\ \A x \in Desc(B) :
                /\ \A k \in Names : serverlist'[k] # x
                /\ \A k \in Sids : sidlist'[k] # x
          /\ Children'[B] = <<>>
          /\ B # TreeRoot =>
                /\ B \in live'
                /\ serverlist'[ServerName[B]] = B
                /\ sidlist'[sid[B]] = B
                /\ Count(Children'[Parent[B]], B) = 1]_vars

\* A Tidy on a non-root node has deleted a child and a grandchild.
C4_Witness ==
    /\ lastOp.op = "Tidy"
    /\ lastOp.node \in live
    /\ Len(lastOp.destroyed) >= 2

\* C5 as claimed: QuitUsers returns the number of users it disconnected, the
\* users affiliated with the node's name that are not locally attached.
C5_ReturnsQuitCount ==
    [][lastOp'.op = "QuitUsers" =>
          /\ lastOp'.ret = Cardinality(clientlist \ clientlist')
          /\ lastOp'.ret = Cardinality({u \in clientlist :
                               u.server = ServerName[lastOp'.node] /\ ~u.local})]_vars

\* C6: QuitUsers on a node removes from the registry exactly the users
\* affiliated with that node's name that are not locally attached, and QuitUser
\* is called on exactly those.
C6_QuitScope ==
    [][lastOp'.op = "QuitUsers" =>
          LET gone == {u \in clientlist :
                          u.server = ServerName[lastOp'.node] /\ ~u.local} IN
          /\ clientlist' = clientlist \ gone
          /\ {q.uid : q \in lastOp'.quits} = {u.uid : u \in gone}]_vars

\* QuitUsers has disconnected a user and a locally attached user affiliated
\* with the same node is still in the registry.
C6_Witness ==
    /\ lastOp.op = "QuitUsers"
    /\ lastOp.node \in live
    /\ lastOp.quits # {}
    /\ \E u \in clientlist : u.local /\ u.server = ServerName[lastOp.node]

\* C7: FinishBurst on a bursting node B leaves B and every descendant of B not
\* bursting, and applies the ban rules once, writes one notice and raises one
\* event, all three for B.
C7_BurstRecursion ==
    [][(lastOp'.op = "FinishBurst" /\ bursting[lastOp'.node]) =>
          LET B == lastOp'.node IN
          /\ \A d \in {B} \cup Desc(B) : ~bursting'[d]
          /\ lastOp'.applied = 1
          /\ Len(lastOp'.notices) = 1
          /\ lastOp'.notices[1].server = ServerName[B]
          /\ lastOp'.events = <<ServerName[B]>>]_vars

\* FinishBurst has run on a bursting node that has a grandchild.
C7_Witness ==
    /\ lastOp.op = "FinishBurst"
    /\ lastOp.arg = 1
    /\ \E d \in live : Parent[d] \in live /\ Parent[Parent[d]] = lastOp.node

\* C8: the root is never bursting; a node is bursting when it is constructed;
\* a node that is not bursting stays so while it lives; and a bursting node
\* only stops bursting in a FinishBurst on itself or on a node whose child
\* vectors lead to it.
C8_BurstingMonotone ==
    [][/\ ~bursting[TreeRoot]
       /\ ~bursting'[TreeRoot]
       /\ \A n \in Addr :
             /\ (n \notin live /\ n \in live') => bursting'[n]
             /\ (n \in live /\ n \in live' /\ ~bursting[n]) => ~bursting'[n]
             /\ (n \in live /\ n \in live' /\ bursting[n] /\ ~bursting'[n]) =>
                   /\ lastOp'.op = "FinishBurst"
                   /\ n \in {lastOp'.node}
                            \cup Range(Reached(Children[lastOp'.node], MaxNodes))]_vars

\* After a direct accessor call, a node that has finished its burst has a
\* child that is still bursting.
C8_Witness ==
    /\ calls > 0
    /\ \E n \in live, c \in live : Parent[c] = n /\ ~bursting[n] /\ bursting[c]

\* C9: every node Tidy deletes has an empty child vector when it is deleted
\* and all its descendants were deleted before it; after Tidy no child vector
\* of a live node holds a deleted node.
C9_TidyPostOrder ==
    [][lastOp'.op = "Tidy" =>
          LET log == lastOp'.destroyed IN
          /\ \A i \in 1..Len(log) :
                /\ log[i].kids = 0
                /\ \A d \in Desc(log[i].node) :
                      \E j \in 1..(i - 1) : log[j].node = d
          /\ \A n \in live' \cup {TreeRoot} : Range(Children'[n]) \subseteq live']_vars

\* A Tidy on a non-root node has deleted a chain or a pair of nodes below it.
C9_Witness ==
    /\ lastOp.op = "Tidy"
    /\ lastOp.node # TreeRoot
    /\ Len(lastOp.destroyed) >= 2
    /\ \E i \in 1..Len(lastOp.destroyed) : lastOp.destroyed[i].kids = 0

\* Every live non-root node has a live parent (or the root) and is exactly once
\* in the child vector of that parent.
TreeShape ==
    \A n \in live :
        /\ Parent[n] \in live \cup {TreeRoot}
        /\ Count(Children[Parent[n]], n) = 1

\* C10 as claimed: the tree shape holds in every state, whatever sequence of
\* constructions, AddChild, DelChild and Tidy calls led to it.
C10_TreeShapeAlways == TreeShape

\* C10 as amended: a link (constructor, then AddChild on the parent), a
\* FinishBurst, a Tidy and the keepalive calls each keep the tree shape; a
\* direct AddChild or DelChild call need not.
C10_HandlersKeepTreeShape ==
    [][(TreeShape /\ lastOp'.op \notin {"AddChild", "DelChild"}) => TreeShape']_vars

\* A Tidy has deleted nodes below a node that has a parent other than the
\* root, and the tree has its shape.
C10_Witness ==
    /\ TreeShape
    /\ lastOp.op = "Tidy"
    /\ lastOp.destroyed # <<>>
    /\ lastOp.node \in live
    /\ Parent[lastOp.node] \in live

\* C11: after SetNextPingTime(t) on a node, NextPingTime() is t and
\* AnsweredLastPing() is false; after SetPingFlag(), AnsweredLastPing() is true
\* and NextPingTime() is what it was; an answered flag only becomes false in a
\* SetNextPingTime call on that node; the two reads return the stored values
\* and change no field; no call touches another node.
C11_KeepaliveCalls ==
    [][LET n == lastOp'.node
           Others(f, g) == \A m \in Node \ {n} : f[m] = g[m]
       IN /\ lastOp'.op = "SetNextPingTime" =>
                /\ NextPing'[n] = lastOp'.arg
                /\ ~LastPingWasGood'[n]
                /\ Others(NextPing, NextPing') /\ Others(LastPingWasGood, LastPingWasGood')
          /\ lastOp'.op = "SetPingFlag" =>
                /\ LastPingWasGood'[n]
                /\ NextPing' = NextPing
                /\ Others(LastPingWasGood, LastPingWasGood')
          /\ \A m \in live \cup {TreeRoot} :
                (LastPingWasGood[m] /\ ~LastPingWasGood'[m]) =>
                    (lastOp'.op = "SetNextPingTime" /\ n = m)
          /\ lastOp'.op = "NextPingTime" =>
                /\ lastOp'.ret = NextPing[n]
                /\ NextPing' = NextPing /\ LastPingWasGood' = LastPingWasGood
          /\ lastOp'.op = "AnsweredLastPing" =>
                /\ lastOp'.ret = (IF LastPingWasGood[n] THEN 1 ELSE 0)
                /\ NextPing' = NextPing /\ LastPingWasGood' = LastPingWasGood]_vars

\* AnsweredLastPing() has returned true on a node whose due time is no longer
\* the one its constructor set, while another node's ping is unanswered: a
\* SetNextPingTime, then a SetPingFlag, then the read.
C11_Witness ==
    /\ lastOp.op = "AnsweredLastPing"
    /\ lastOp.ret = 1
    /\ lastOp.node \in live
    /\ NextPing[lastOp.node] # now + PingFreq
    /\ \E m \in live : ~LastPingWasGood[m]

\* C12: a Tidy on a node whose child vector is empty changes no field of any
\* node, neither index map, the set of live nodes nor the registry, and deletes
\* nothing; and every node any Tidy deletes was live before the call and is
\* deleted once.
C12_TidyIdempotent ==
    [][lastOp'.op = "Tidy" =>
          LET log == lastOp'.destroyed IN
          /\ \A i \in 1..Len(log) :
                /\ log[i].node \in live
                /\ \A j \in 1..Len(log) : log[j].node = log[i].node => i = j
          /\ Children[lastOp'.node] = <<>> =>
                /\ log = <<>>
                /\ UNCHANGED <<live, Parent, Route, ServerName, VersionString, sid, bursting,
                               StartBurst, NextPing, LastPingWasGood, Children,
                               serverlist, sidlist, clientlist>>]_vars

\* A second Tidy on a non-root node, right after the Tidy that deleted the
\* nodes below it, has deleted nothing.
C12_Witness ==
    /\ lastOp.op = "Tidy"
    /\ lastOp.node \in live
    /\ lastOp.arg > 0
    /\ lastOp.destroyed = <<>>

\* The parent chain of n reaches the root within `fuel` steps.
RECURSIVE ReachesRoot(_, _)
ReachesRoot(n, fuel) ==
    \/ n = TreeRoot
    \/ /\ fuel > 0
       /\ n \in live
       /\ ReachesRoot(Parent[n], fuel - 1)

\* C13: the root is the one node with a null parent, every live node's parent
\* chain ends at the root (no cycle), the root is always found under its own
\* name and SID, and no Tidy, on the root or on another node, deletes the root.
C13_SingleRoot ==
    /\ Parent[TreeRoot] = NULL
    /\ \A n \in live : Parent[n] # NULL /\ ReachesRoot(n, MaxNodes)
    /\ serverlist[RootName] = TreeRoot
    /\ sidlist[RootSid] = TreeRoot
    /\ \A i \in 1..Len(lastOp.destroyed) : lastOp.destroyed[i].node # TreeRoot

\* A Tidy on the root has deleted two or more nodes and no node but the root
\* is left.
C13_Witness ==
    /\ lastOp.op = "Tidy"
    /\ lastOp.node = TreeRoot
    /\ Len(lastOp.destroyed) >= 2
    /\ live = {}

\* C14: QuitUsers changes no parent, child vector, route, bursting flag, ping
\* field, index entry or live node; Tidy leaves the registry as it was and
\* calls QuitUser on nobody.
C14_QuitTidyIndependent ==
    [][/\ lastOp'.op = "QuitUsers" =>
             /\ lastOp'.destroyed = <<>>
             /\ UNCHANGED <<live, Parent, Route, ServerName, VersionString, sid, bursting,
                            StartBurst, NextPing, LastPingWasGood, Children,
                            serverlist, sidlist>>
       /\ lastOp'.op = "Tidy" =>
             /\ clientlist' = clientlist
             /\ lastOp'.quits = {}]_vars

\* QuitUsers has disconnected a user of a node that still has its children
\* and its index entries.
C14_Witness ==
    /\ lastOp.op = "QuitUsers"
    /\ lastOp.quits # {}
    /\ lastOp.node \in live
    /\ Children[lastOp.node] # <<>>
    /\ serverlist[ServerName[lastOp.node]] = lastOp.node
    /\ sidlist[sid[lastOp.node]] = lastOp.node

\* C15: whatever the operation (a link, a Tidy, AddChild, DelChild,
\* FinishBurst, SetVersion, SetNextPingTime, SetPingFlag, QuitUsers), a node
\* that is live before and after it has the Route and the Parent it had; the
\* fields are not written, so when the node they point to has been deleted
\* they still hold its address, which is then the address of freed memory.
C15_RouteFixed ==
    [][\A n \in live \cap live' :
          LET Kept(f, g) == g[n] = f[n] \/ (g[n] = Freed /\ f[n] \in live \ live')
          IN Kept(Route, Route') /\ Kept(Parent, Parent')]_vars

\* A node routed through its parent has had its version set and its burst
\* ended, and a user of it has been quit, and it is routed as it was built.
C15_Witness ==
    \E n \in live :
        /\ Parent[n] \in live
        /\ Route[n] = Parent[n]
        /\ VersionString[n] # ""
        /\ ~bursting[n]
        /\ lastOp.op = "QuitUsers"
        /\ lastOp.node = n
        /\ lastOp.quits # {}

\* C16: every FinishBurst on a node B leaves every node of B's subtree, B
\* included, not bursting and due for its next ping at the current time plus
\* the ping interval; so on a node that an earlier FinishBurst had already
\* made stable the flag stays false and the schedule is set anew.
C16_FinishBurstReschedules ==
    [][lastOp'.op = "FinishBurst" =>
          LET B == lastOp'.node IN
          \A d \in {B} \cup Desc(B) :
              /\ ~bursting'[d]
              /\ NextPing'[d] = now + PingFreq]_vars

\* FinishBurst has run on a node that was stable already and lies below a
\* server whose schedule dates from an earlier time.
C16_Witness ==
    /\ lastOp.op = "FinishBurst"
    /\ lastOp.arg = 0
    /\ Parent[lastOp.node] \in live
    /\ ~bursting[Parent[lastOp.node]]
    /\ NextPing[lastOp.node] = now + PingFreq
    /\ NextPing[Parent[lastOp.node]] < NextPing[lastOp.node]

\* C17 as claimed: the notice of FinishBurst on B gives the time since B's
\* burst began, in seconds to one decimal place when it is more than 10000 ms
\* and in milliseconds otherwise, and its class is 'l' exactly when B's parent
\* is the root. The number printed is compared in tenths of a second.
C17_NoticeOneDecimal ==
    [][lastOp'.op = "FinishBurst" =>
          LET B == lastOp'.node
              bursttime == TimeMs - StartBurst[B]
              notice == lastOp'.notices[1]
          IN /\ bursttime > 10000 =>
                   /\ notice.unit = "secs"
                   /\ notice.amount * 10 = bursttime \div 100
             /\ bursttime <= 10000 =>
                   /\ notice.unit = "msecs"
                   /\ notice.amount = bursttime
             /\ notice.class = "l" <=> Parent[B] = TreeRoot]_vars

\* C17 as amended: the notice gives the time since B's burst began in whole
\* seconds, the fraction dropped, when it is more than 10000 ms, and in
\* milliseconds otherwise (10000 ms itself is given in milliseconds); its
\* class is 'l' exactly when B's parent is the root, and 'L' otherwise.
C17_NoticeWholeSeconds ==
    [][lastOp'.op = "FinishBurst" =>
          LET B == lastOp'.node
              bursttime == TimeMs - StartBurst[B]
              notice == lastOp'.notices[1]
          IN /\ Len(lastOp'.notices) = 1
             /\ notice.server = ServerName[B]
             /\ bursttime > 10000 =>
                   /\ notice.unit = "secs"
                   /\ notice.amount * 1000 <= bursttime
                   /\ bursttime < (notice.amount + 1) * 1000
             /\ bursttime <= 10000 =>
                   /\ notice.unit = "msecs"
                   /\ notice.amount = bursttime
             /\ notice.class = (IF Parent[B] = TreeRoot THEN "l" ELSE "L")]_vars

\* A burst of 10500 ms below a server other than the root has ended: the
\* notice is of class 'L' and says 10 secs.
C17_Witness ==
    /\ lastOp.op = "FinishBurst"
    /\ Parent[lastOp.node] \in live
    /\ TimeMs - StartBurst[lastOp.node] = 10500
    /\ lastOp.notices[1] = [class |-> "L", server |-> ServerName[lastOp.node],
                            amount |-> 10, unit |-> "secs"]

\* C18: every QuitUser call that QuitUsers makes has the user marked for a
\* quiet quit exactly when quiet_bursts is set, shows "*.net *.split" when
\* HideSplits is set, with the reason passed to QuitUsers given to operators,
\* and shows the reason passed otherwise; no user left in the registry is
\* marked.
C18_QuitMarking ==
    [][lastOp'.op = "QuitUsers" =>
          /\ \A q \in lastOp'.quits :
                /\ q.quietquit = quiet_bursts
                /\ q.quitreason = (IF HideSplits THEN "*.net *.split" ELSE lastOp'.arg)
                /\ HideSplits => q.operreason = lastOp'.arg
          /\ \A u \in clientlist' : ~u.quietquit]_vars

\* With quiet bursts and split hiding both set, QuitUsers has quit a user and
\* left a local user of the same server in the registry.
C18_Witness ==
    /\ lastOp.op = "QuitUsers"
    /\ quiet_bursts
    /\ HideSplits
    /\ \E q \in lastOp.quits : q.quietquit /\ q.quitreason # lastOp.arg
    /\ \E u \in clientlist : u.local /\ u.server = ServerName[lastOp.node]

\* A remote user whose server name is not in the index.
Orphans == {u \in clientlist : ~u.local /\ serverlist[u.server] = NULL}

\* C19: the pair QuitUsers(N), Tidy(N) removes from the registry the remote
\* users of N's own name and no others; every remote user of a descendant of N
\* is still in the registry afterwards while its server's name is gone from
\* the index; and the pair orphans no other user, so none is orphaned when no
\* remote user of a descendant was left before the pair ran.
C19_DescendantUsersOrphaned ==
    [][lastOp'.op = "LinkLost" =>
          LET N == lastOp'.node
              below == {u \in clientlist :
                           ~u.local /\ \E d \in Desc(N) : u.server = ServerName[d]}
          IN /\ clientlist' =
                   clientlist \ {u \in clientlist : ~u.local /\ u.server = ServerName[N]}
             /\ below \subseteq Orphans'
             /\ Orphans' \ Orphans = below]_vars

\* The pair has quit a user of N and left a remote user of a deleted
\* descendant of N in the registry.
C19_Witness ==
    /\ lastOp.op = "LinkLost"
    /\ lastOp.node \in live
    /\ lastOp.quits # {}
    /\ lastOp.destroyed # <<>>
    /\ Orphans # {}

\* C20: the node a link constructs, and every node of B's subtree after a
\* FinishBurst on B, is due for its next ping at the current time plus the ping
\* interval and reports its last ping as answered; and as long as no ping is
\* sent, every server that is due for a ping reports its last ping as answered.
C20_FreshNodeAnswered ==
    /\ [][(lastOp'.op = "LinkServer" =>
              /\ NextPing'[lastOp'.node] = now + PingFreq
              /\ LastPingWasGood'[lastOp'.node])
          /\ (lastOp'.op = "FinishBurst" =>
                 \A d \in {lastOp'.node} \cup Desc(lastOp'.node) :
                     /\ NextPing'[d] = now + PingFreq
                     /\ LastPingWasGood'[d])]_vars
    /\ [](\A n \in live : now >= NextPing[n] => LastPingWasGood[n])

\* The clock has reached the due time of a server that no ping was sent to,
\* while a server below it, whose burst ended later, is not due yet.
C20_Witness ==
    /\ lastOp.op = "Tick"
    /\ \E n \in live :
           /\ now >= NextPing[n]
           /\ LastPingWasGood[n]
           /\ \E d \in live :
                  /\ Parent[d] = n
                  /\ ~bursting[d]
                  /\ now < NextPing[d]
                  /\ LastPingWasGood[d]

====
